---- MODULE Spec2Model ----
(***************************************************************************)
(* A model of backend/app.py: the Flask PDF upload gateway.                *)
(*                                                                         *)
(*   - module start-up: the cross-origin policy (lines 11-24) and the      *)
(*     transport-level size cap (lines 26-33);                             *)
(*   - POST /api/upload: upload_file (lines 74-167) with its helpers       *)
(*     allowed_file, is_pdf_file and get_s3_client;                        *)
(*   - GET /api/config: get_config (lines 169-182).                        *)
(*                                                                         *)
(* Text is a sequence of one-character strings, so that splitting,         *)
(* lower-casing and sanitizing are computed character by character as the  *)
(* code does.  The object store (boto3) and the uuid generator are the     *)
(* environment: their outcomes are nondeterministic choices.               *)
(***************************************************************************)
EXTENDS Integers, Sequences, FiniteSets, TLC

(***************************************************************************)
(* Bounds of the model.                                                    *)
(***************************************************************************)
\* longest stem (the part before the suffix) of a declared filename
MaxStemLen == 3
\* sizes within this distance of MAX_FILE_SIZE are tried on both sides
OverCap == 1
\* the bytes the multipart framing adds to the file's own bytes
FramingBytes == 1
\* concurrent handler invocations
NumHandlers == 2

(***************************************************************************)
(* Program constants.                                                      *)
(***************************************************************************)
MAX_FILE_SIZE == 50 * 1024 * 1024

MAX_CONTENT_LENGTH == MAX_FILE_SIZE

ALLOWED_EXTENSIONS == {<<"p", "d", "f">>}

PDF_MAGIC == <<"%", "P", "D", "F">>

PRESIGN_EXPIRES == 3600

\* Python's None, for values that are otherwise strings
NONE == "<None>"

\* JSON null, for values that are otherwise tuples
NULL == <<>>

\* bool(v) of a value that is None or a string
Truthy(v) == v # NONE /\ v # ""

Min(a, b) == IF a < b THEN a ELSE b

(***************************************************************************)
(* str.lower() on the characters of the model's alphabet.                  *)
(***************************************************************************)
LowerChar(c) ==
    CASE c = "P" -> "p"
      [] c = "D" -> "d"
      [] c = "F" -> "f"
      [] c = "A" -> "a"
      [] OTHER -> c

Lower(s) == [i \in 1..Len(s) |-> LowerChar(s[i])]

\* the index of the last "." of s (0 when there is none)
LastDot(s) ==
    IF \E i \in 1..Len(s) : s[i] = "."
    THEN CHOOSE i \in 1..Len(s) :
            s[i] = "." /\ \A j \in (i+1)..Len(s) : s[j] # "."
    ELSE 0

\* filename.rsplit('.', 1)[1]
RSplitExt(s) == SubSeq(s, LastDot(s) + 1, Len(s))

\* allowed_file without the lower(): "A.PDF" is turned away
allowed_file_case_sensitive(filename) ==
    /\ \E i \in 1..Len(filename) : filename[i] = "."
    /\ RSplitExt(filename) \in ALLOWED_EXTENSIONS

\* allowed_file without the membership test: any name with a dot passes
allowed_file_any_dot(filename) ==
    \E i \in 1..Len(filename) : filename[i] = "."

\* allowed_file (lines 36-39)
allowed_file(filename) ==
    /\ \E i \in 1..Len(filename) : filename[i] = "."
    /\ Lower(RSplitExt(filename)) \in ALLOWED_EXTENSIONS

(***************************************************************************)
(* werkzeug.utils.secure_filename, as called on line 117:                  *)
(*   the path separator becomes a space; the name is split on whitespace   *)
(*   and joined with "_"; every character outside [A-Za-z0-9_.-] is        *)
(*   removed; leading and trailing "." and "_" are stripped.               *)
(***************************************************************************)
SAFE_CHARS == {"a", "p", "d", "f", "t", "x", "A", "P", "D", "F", "_", ".", "-"}

ReplaceSep(s) == [i \in 1..Len(s) |-> IF s[i] = "/" THEN " " ELSE s[i]]

RECURSIVE LStrip(_, _)
LStrip(s, chars) ==
    IF s # <<>> /\ Head(s) \in chars THEN LStrip(Tail(s), chars) ELSE s

RECURSIVE RStrip(_, _)
RStrip(s, chars) ==
    IF s # <<>> /\ s[Len(s)] \in chars
    THEN RStrip(SubSeq(s, 1, Len(s) - 1), chars)
    ELSE s

Strip(s, chars) == RStrip(LStrip(s, chars), chars)

\* "_".join(s.split()): runs of whitespace inside become one "_", those at
\* the ends disappear
RECURSIVE JoinWords(_)
JoinWords(s) ==
    IF s = <<>> THEN <<>>
    ELSE IF Head(s) = " "
         THEN LET rest == LStrip(s, {" "})
              IN  IF rest = <<>> THEN <<>> ELSE <<"_">> \o JoinWords(rest)
         ELSE <<Head(s)>> \o JoinWords(Tail(s))

SplitJoin(s) == JoinWords(LStrip(s, {" "}))

KeepSafe(s) == SelectSeq(s, LAMBDA c : c \in SAFE_CHARS)

secure_filename(filename) ==
    Strip(KeepSafe(SplitJoin(ReplaceSep(filename))), {".", "_"})

(***************************************************************************)
(* The uploaded stream: its first bytes (at most 4 are ever read) and its  *)
(* total length.                                                           *)
(***************************************************************************)
\* file_obj.read(n) from position pos
StreamRead(stream, pos, n) ==
    SubSeq(stream.head, pos + 1, Min(Len(stream.head), pos + n))

\* is_pdf_file (lines 41-46): seek(0), read(4), seek(0); the position left
\* behind is 0 whatever the outcome
is_pdf_file(stream) == StreamRead(stream, 0, 4) = PDF_MAGIC

\* seek(0, SEEK_END); tell()  (lines 97-98)
StreamSize(stream) == stream.size

(***************************************************************************)
(* Responses.  jsonify(body), status: one JSON object and a status code.   *)
(***************************************************************************)
JsonResponse(body, status) == [status |-> status, json |-> TRUE, body |-> body]

JsonError(text, status) == JsonResponse([error |-> text], status)

\* no response produced yet
NoResp == [status |-> 0, json |-> FALSE, body |-> [error |-> ""]]

\* what Flask answers when an exception leaves a view and no error handler
\* is registered for it: an HTML page, not a JSON object
UnhandledFault == [status |-> 500, json |-> FALSE, body |-> [error |-> ""]]

\* the text both size rejections carry (lines 33 and 102)
TooLargeText ==
    "File size exceeds " \o ToString(MAX_FILE_SIZE \div (1024*1024)) \o "MB limit"

\* file_too_large (lines 30-33): the handler registered for a 413 that
\* leaves a view
file_too_large == JsonError(TooLargeText, 413)

(***************************************************************************)
(* Exceptions: the type, the error code of a botocore ClientError (when    *)
(* its response carries one) and str(e).                                   *)
(***************************************************************************)
Exc(type, has_code, code, msg) ==
    [type |-> type, has_code |-> has_code, code |-> code, msg |-> msg]

NoExc == Exc("", FALSE, "", "")

\* werkzeug raises this where the request body is first read
RequestEntityTooLarge ==
    Exc("RequestEntityTooLarge", FALSE, "",
        "413 Request Entity Too Large: The data value transmitted exceeds the capacity limit.")

NoCredentialsError ==
    Exc("NoCredentialsError", FALSE, "", "Unable to locate credentials")

ClientError(code) == Exc("ClientError", TRUE, code, "An error occurred (" \o code \o ")")

\* a ClientError whose response holds no Error.Code
ClientErrorNoCode == Exc("ClientError", FALSE, "", "An error occurred (Unknown)")

\* e.response['Error']['Code'] on such a response
KeyError == Exc("KeyError", FALSE, "", "'Error'")

OtherException == Exc("Exception", FALSE, "", "Connection was closed")

\* the outcomes of s3_client.upload_fileobj: it returns, or raises
PutOutcomes ==
    { NoExc, NoCredentialsError, ClientError("NoSuchBucket"),
      ClientError("AccessDenied"), ClientErrorNoCode, OtherException }

\* the outcomes of s3_client.generate_presigned_url
PresignOutcomes == { NoExc, OtherException }

\* the outcomes of boto3.client(...)
ClientOutcomes == { NoExc, OtherException }

(***************************************************************************)
(* The environment variables of the process and the requests.              *)
(***************************************************************************)
Env(ak, sk, bucket, region, debug, frontend) ==
    [ AWS_ACCESS_KEY_ID |-> ak, AWS_SECRET_ACCESS_KEY |-> sk,
      AWS_S3_BUCKET |-> bucket, AWS_REGION |-> region,
      FLASK_DEBUG |-> debug, FRONTEND_URL |-> frontend ]

\* os.getenv(name, default)
getenv(environ, name, default) ==
    IF environ[name] = NONE THEN default ELSE environ[name]

\* every combination of set, empty and unset variables
AllEnvs ==
    { Env(ak, sk, b, r, d, f) :
        ak \in {NONE, "", "AKIAEXAMPLE"}, sk \in {NONE, "", "secret"},
        b \in {NONE, "", "my-bucket"},
        r \in {NONE, "", "us-east-1", "US East (Ohio) us-east-2"},
        d \in {NONE, "0", "1", "true"},
        f \in {NONE, "", "https://app.example"} }

\* the environments the upload runs are checked in: the bucket varies
UploadEnvs ==
    { Env("AKIAEXAMPLE", "secret", b, NONE, NONE, NONE) :
        b \in {NONE, "", "my-bucket"} }

Request(has_file, filename, stream, chunked, body_len) ==
    [ has_file |-> has_file, filename |-> filename, stream |-> stream,
      chunked |-> chunked, body_len |-> body_len ]

Stream(head, size) == [head |-> head, size |-> size]

NoReq == Request(FALSE, <<>>, Stream(<<>>, 0), FALSE, 0)

\* the characters a stem is made of: a letter, the dot, the path
\* separator, an unsafe character and the underscore
StemChars == {"a", ".", "/", "*", "_"}

Stems == UNION { [1..n -> StemChars] : n \in 0..MaxStemLen }

Suffixes ==
    { <<>>, <<".", "p", "d", "f">>, <<".", "P", "D", "F">>,
      <<".", "t", "x", "t">>, <<"p", "d", "f">>, <<".", "p", "d", "f", ".">> }

Filenames == { s \o e : s \in Stems, e \in Suffixes }

\* total lengths: small ones and those around the limit
Sizes == {4, 10} \cup ((MAX_FILE_SIZE - OverCap)..(MAX_FILE_SIZE + OverCap))

\* streams shorter than 4 bytes, and 4-byte heads with every length
Streams ==
    { Stream(<<>>, 0), Stream(<<"%", "P", "D">>, 3) }
    \cup { Stream(h, n) : h \in {PDF_MAGIC, <<"P", "K", "3", "4">>}, n \in Sizes }

\* a multipart body with a file part: the file's bytes plus the framing; the
\* body comes with a Content-Length or chunked
FileRequests ==
    { Request(TRUE, fn, st, ch, st.size + FramingBytes) :
        fn \in Filenames, st \in Streams, ch \in BOOLEAN }

\* a body without the form field "file"
NoFileRequests ==
    { Request(FALSE, <<>>, Stream(<<>>, 0), ch, n) :
        ch \in BOOLEAN, n \in {0, MAX_CONTENT_LENGTH + 1} }

Requests == FileRequests \cup NoFileRequests

(***************************************************************************)
(* State.                                                                  *)
(***************************************************************************)
VARIABLES
    env,         \* the environment variables, read-only after process start
    cors,        \* the cross-origin policy chosen at import time
    hs,          \* the handler invocations of POST /api/upload
    issued,      \* the identifiers uuid4 has returned
    store,       \* the objects the bucket holds
    configResp,  \* the last answer of GET /api/config
    corsResp     \* the last cross-origin decision

vars == <<env, cors, hs, issued, store, configResp, corsResp>>

Handlers == 1..NumHandlers

\* str(uuid.uuid4()): 36 characters, none of them "_" or "/"; one element
\* of a key stands for the whole identifier
Uuids == { "uuid-" \o ToString(i) : i \in 1..(NumHandlers + 1) }

(***************************************************************************)
(* Module start-up: the cross-origin policy (lines 11-24).                 *)
(***************************************************************************)
DEV_ORIGINS == <<"http://localhost:3000", "http://localhost:5000">>

is_debug(environ) == getenv(environ, "FLASK_DEBUG", "0") = "1"

allowed_origins(environ) ==
    (IF Truthy(getenv(environ, "FRONTEND_URL", NONE))
     THEN <<getenv(environ, "FRONTEND_URL", NONE)>> ELSE <<>>)
    \o (IF is_debug(environ) THEN DEV_ORIGINS ELSE <<>>)

\* CORS(app) keeps flask_cors' default, origins "*"; CORS(app, origins=l)
\* permits the origins of l
configure_cors(environ) ==
    IF is_debug(environ) /\ allowed_origins(environ) = <<>>
    THEN [origins |-> <<"*">>]
    ELSE [origins |-> allowed_origins(environ)]

\* whether the policy answers a request of this origin with
\* Access-Control-Allow-Origin
Permits(policy, origin) ==
    \E i \in 1..Len(policy.origins) :
        policy.origins[i] = "*" \/ policy.origins[i] = origin

(***************************************************************************)
(* GET /api/config (lines 169-182).                                        *)
(***************************************************************************)
config_status(environ) ==
    [ aws_access_key |-> Truthy(getenv(environ, "AWS_ACCESS_KEY_ID", NONE)),
      aws_secret_key |-> Truthy(getenv(environ, "AWS_SECRET_ACCESS_KEY", NONE)),
      aws_bucket |-> Truthy(getenv(environ, "AWS_S3_BUCKET", NONE)),
      aws_region |-> getenv(environ, "AWS_REGION", "us-east-1") ]

\* all(config_status.values()): the region string is one of the values
config_all(status) ==
    /\ status.aws_access_key
    /\ status.aws_secret_key
    /\ status.aws_bucket
    /\ Truthy(status.aws_region)

get_config_response(environ) ==
    [ answered |-> TRUE,
      configured |-> config_all(config_status(environ)),
      details |-> config_status(environ) ]

NoConfigResp ==
    [ answered |-> FALSE, configured |-> FALSE,
      details |-> [ aws_access_key |-> FALSE, aws_secret_key |-> FALSE,
                    aws_bucket |-> FALSE, aws_region |-> "" ] ]

(***************************************************************************)
(* POST /api/upload: upload_file (lines 74-167).                           *)
(***************************************************************************)
\* what the view hands back to Flask: a response, or an exception
Return(resp) == [raised |-> FALSE, exc |-> NoExc, resp |-> resp]

Raise(e) == [raised |-> TRUE, exc |-> e, resp |-> NoResp]

\* the outer clause missing: the exception leaves the view
OuterReraise(e) == Raise(e)

\* except Exception as e (lines 166-167)
OuterCatch(e) == Return(JsonError("Server error: " \o e.msg, 500))

\* Flask's dispatch of what the view handed back: a 413 that left the view
\* goes to file_too_large (line 30), any other exception is a fault
Dispatch(result) ==
    IF result.raised
    THEN IF result.exc.type = "RequestEntityTooLarge"
         THEN file_too_large ELSE UnhandledFault
    ELSE result.resp

\* request.files (line 79) parses the body, and werkzeug raises
\* RequestEntityTooLarge there when the declared Content-Length exceeds
\* MAX_CONTENT_LENGTH (line 28).  A chunked body declares no length: whether
\* the cap is enforced while reading it depends on the werkzeug release
\* (enforce), which the repository does not pin.
TransportRejects(request, enforce) ==
    /\ request.body_len > MAX_CONTENT_LENGTH
    /\ (~request.chunked \/ enforce)

\* get_s3_client (lines 48-67): the client, or None when boto3.client raised.
\* The credentials and the region it reads (normalized on lines 54-56) only
\* go into boto3.client, whose outcome is the environment's choice.
get_s3_client(environ, outcome) ==
    IF outcome = NoExc THEN "s3-client" ELSE NONE

\* "bucket_name is None" in place of "not bucket_name": an empty name passes
bucket_is_not_none(bucket_name) == bucket_name # NONE

\* not bucket_name (line 106)
bucket_configured(bucket_name) == Truthy(bucket_name)

\* the key without the identifier
derive_key_no_uuid(uuid, original_filename) ==
    <<"p", "d", "f", "s", "/">> \o original_filename

\* lines 118-119
derive_key(uuid, original_filename) ==
    <<"p", "d", "f", "s", "/">> \o <<uuid>> \o <<"_">> \o original_filename

\* the locals of the view after lines 79-119, and what it hands back when it
\* ends there (result.resp = NoResp: it goes on to the put)
Locals(result, file_size, bucket_name, s3_client, original_filename, s3_key) ==
    [ result |-> result, file_size |-> file_size, bucket_name |-> bucket_name,
      s3_client |-> s3_client, original_filename |-> original_filename,
      s3_key |-> s3_key ]

Ends(result) == Locals(result, 0, NONE, NONE, <<>>, <<>>)

\* lines 79-107: the body is parsed, the file is checked and the bucket
\* name is read
upload_checks(request, environ, enforce) ==
    IF TransportRejects(request, enforce)
    THEN Ends(OuterCatch(RequestEntityTooLarge))
    ELSE IF ~request.has_file
    THEN Ends(Return(JsonError("No file provided", 400)))
    ELSE IF request.filename = <<>>
    THEN Ends(Return(JsonError("No file selected", 400)))
    ELSE IF ~allowed_file(request.filename)
    THEN Ends(Return(JsonError("Only PDF files are allowed", 400)))
    ELSE IF ~is_pdf_file(request.stream)
    THEN Ends(Return(JsonError("File is not a valid PDF", 400)))
    ELSE LET file_size == StreamSize(request.stream)
             bucket_name == getenv(environ, "AWS_S3_BUCKET", NONE)
         IN  IF file_size > MAX_FILE_SIZE
             THEN Ends(Return(JsonError(TooLargeText, 400)))
             ELSE IF ~bucket_configured(bucket_name)
             THEN Ends(Return(JsonError("S3 bucket not configured", 500)))
             ELSE Locals(Return(NoResp), file_size, bucket_name, NONE, <<>>, <<>>)

\* lines 109-119: the client is made, the filename is sanitized and the key
\* is derived
upload_derive(l, request, environ, client_outcome, uuid) ==
    LET s3_client == get_s3_client(environ, client_outcome)
        original_filename == secure_filename(request.filename)
    IN  IF s3_client = NONE
        THEN Ends(Return(JsonError("Failed to initialize S3 client", 500)))
        ELSE IF request.filename = <<>>
        THEN Ends(Return(JsonError("Invalid filename", 400)))
        ELSE Locals(Return(NoResp), l.file_size, l.bucket_name, s3_client,
                    original_filename, derive_key(uuid, original_filename))

\* ExtraArgs of upload_fileobj (lines 127-133)
ExtraArgs(l) ==
    [ ContentType |-> "application/pdf",
      Metadata |-> [ original_filename |-> l.original_filename,
                     file_size |-> ToString(l.file_size) ] ]

\* lines 137-145: the URL, or None when generate_presigned_url raised
presigned_url(presign_exc, bucket_name, s3_key) ==
    IF presign_exc = NoExc
    THEN <<"https://", bucket_name, s3_key, ToString(PRESIGN_EXPIRES)>>
    ELSE NULL

\* lines 147-153
success_response(l, url) ==
    JsonResponse([ message |-> "File uploaded successfully",
                   filename |-> l.original_filename,
                   s3_key |-> l.s3_key,
                   presigned_url |-> url,
                   file_size |-> l.file_size ], 200)

\* the except clauses of the put (lines 155-164); a ClientError whose
\* response holds no code raises KeyError inside its clause, which the
\* outer clause catches
put_except(e) ==
    IF e.type = "NoCredentialsError"
    THEN Return(JsonError("AWS credentials not found", 500))
    ELSE IF e.type = "ClientError"
    THEN IF ~e.has_code THEN OuterCatch(KeyError)
         ELSE IF e.code = "NoSuchBucket"
         THEN Return(JsonError("S3 bucket does not exist", 500))
         ELSE Return(JsonError("S3 error: " \o e.code, 500))
    ELSE Return(JsonError("Upload failed: " \o e.msg, 500))

\* the put's failure swallowed like the presigned URL's
upload_try_swallow(put_exc, presign_exc, l) ==
    Return(success_response(l,
               presigned_url(presign_exc, l.bucket_name, l.s3_key)))

\* the presigned URL's own try missing: its failure reaches the put's clauses
upload_try_presign_fatal(put_exc, presign_exc, l) ==
    IF put_exc # NoExc THEN put_except(put_exc)
    ELSE IF presign_exc # NoExc THEN put_except(presign_exc)
    ELSE Return(success_response(l,
                    presigned_url(presign_exc, l.bucket_name, l.s3_key)))

\* the try block of lines 122-164, given what the two store calls did
upload_try(put_exc, presign_exc, l) ==
    IF put_exc = NoExc
    THEN Return(success_response(l,
                    presigned_url(presign_exc, l.bucket_name, l.s3_key)))
    ELSE put_except(put_exc)

(***************************************************************************)
(* One handler invocation: where it is, its request, its locals, what the  *)
(* store calls did and how often each was made.                            *)
(***************************************************************************)
Idle ==
    [ pc |-> "idle", req |-> NoReq, rejected |-> FALSE, resp |-> NoResp,
      propagated |-> FALSE, l |-> Ends(Return(NoResp)),
      put_calls |-> 0, presign_calls |-> 0,
      client_exc |-> NoExc, put_exc |-> NoExc, presign_exc |-> NoExc ]

\* the stored object of a put that returned
Object(h, l) ==
    [ by |-> h, Bucket |-> l.bucket_name, Key |-> l.s3_key,
      ExtraArgs |-> ExtraArgs(l) ]

\* a request arrives and Flask calls the view
Arrive(h, request) ==
    /\ hs[h].pc = "idle"
    /\ hs' = [hs EXCEPT ![h] = [@ EXCEPT !.pc = "checks", !.req = request]]
    /\ UNCHANGED <<env, cors, issued, store, configResp, corsResp>>

Receive(h) ==
    /\ hs[h].pc = "idle"
    /\ \E request \in Requests : Arrive(h, request)

\* what a step of the view that may end it leaves in the handler's state
GoesOn(l) == ~l.result.raised /\ l.result.resp = NoResp

Step(h, l, next) ==
    [hs[h] EXCEPT !.pc = IF GoesOn(l) THEN next ELSE "done",
                  !.l = l,
                  !.propagated = l.result.raised,
                  !.resp = IF GoesOn(l) THEN NoResp ELSE Dispatch(l.result)]

\* lines 79-107
Checks(h) ==
    /\ hs[h].pc = "checks"
    /\ \E enforce \in BOOLEAN :
          LET l == upload_checks(hs[h].req, env, enforce)
          IN  hs' = [hs EXCEPT ![h] =
                       [Step(h, l, "derive") EXCEPT
                           !.rejected = TransportRejects(hs[h].req, enforce)]]
    /\ UNCHANGED <<env, cors, issued, store, configResp, corsResp>>

\* lines 109-119; uuid4 returns an identifier it has not returned before
Derive(h) ==
    /\ hs[h].pc = "derive"
    /\ \E client_outcome \in ClientOutcomes, uuid \in Uuids \ issued :
          LET l == upload_derive(hs[h].l, hs[h].req, env, client_outcome, uuid)
          IN  /\ hs' = [hs EXCEPT ![h] =
                          [Step(h, l, "put") EXCEPT !.client_exc = client_outcome]]
              /\ issued' = IF GoesOn(l) THEN issued \cup {uuid} ELSE issued
    /\ UNCHANGED <<env, cors, store, configResp, corsResp>>

\* lines 123-134 and, when the call raised, 155-167
Put(h) ==
    /\ hs[h].pc = "put"
    /\ \E e \in PutOutcomes :
          LET result == upload_try(e, NoExc, hs[h].l)
          IN  /\ hs' = [hs EXCEPT ![h] =
                          [@ EXCEPT !.pc = IF e = NoExc THEN "presign" ELSE "done",
                                    !.put_calls = @ + 1,
                                    !.put_exc = e,
                                    !.propagated = e # NoExc /\ result.raised,
                                    !.resp = IF e = NoExc THEN NoResp
                                             ELSE Dispatch(result)]]
              /\ store' = IF e = NoExc THEN store \cup {Object(h, hs[h].l)}
                          ELSE store
    /\ UNCHANGED <<env, cors, issued, configResp, corsResp>>

\* lines 136-153
Presign(h) ==
    /\ hs[h].pc = "presign"
    /\ \E p \in PresignOutcomes :
          LET result == upload_try(NoExc, p, hs[h].l)
          IN  hs' = [hs EXCEPT ![h] =
                       [@ EXCEPT !.pc = "done",
                                 !.presign_calls = @ + 1,
                                 !.presign_exc = p,
                                 !.propagated = result.raised,
                                 !.resp = Dispatch(result)]]
    /\ UNCHANGED <<env, cors, issued, store, configResp, corsResp>>

\* GET /api/config
get_config ==
    /\ configResp' = get_config_response(env)
    /\ UNCHANGED <<env, cors, hs, issued, store, corsResp>>

\* the origins cross-origin requests come from
Origins ==
    { "http://localhost:3000", "http://localhost:5000",
      "https://app.example", "https://other.example" }

NoCorsResp == [origin |-> "", allowed |-> FALSE]

\* a request with an Origin header is answered under the policy
CrossOriginRequest ==
    /\ \E origin \in Origins :
          corsResp' = [origin |-> origin, allowed |-> Permits(cors, origin)]
    /\ UNCHANGED <<env, cors, hs, issued, store, configResp>>

(***************************************************************************)
(* Specifications.                                                         *)
(***************************************************************************)
Started(environs) ==
    /\ env \in environs
    /\ cors = configure_cors(env)
    /\ hs = [h \in Handlers |-> Idle]
    /\ issued = {}
    /\ store = {}
    /\ configResp = NoConfigResp
    /\ corsResp = NoCorsResp

\* one upload, over every request of the model
Init == Started(UploadEnvs)

Next == Receive(1) \/ Checks(1) \/ Derive(1) \/ Put(1) \/ Presign(1)

Spec == Init /\ [][Next]_vars

\* concurrent uploads, over requests that differ in their filenames
ConcFilenames ==
    { <<"a", ".", "p", "d", "f">>, <<"/", "a", ".", "p", "d", "f">>,
      <<"a", ".", "t", "x", "t">> }

ConcRequests ==
    { Request(TRUE, fn, Stream(PDF_MAGIC, 10), FALSE, 10 + FramingBytes) :
        fn \in ConcFilenames }

ReceiveConc(h) ==
    /\ hs[h].pc = "idle"
    /\ \E request \in ConcRequests : Arrive(h, request)

InitConc == Started(UploadEnvs)

NextConc ==
    \E h \in Handlers :
        ReceiveConc(h) \/ Checks(h) \/ Derive(h) \/ Put(h) \/ Presign(h)

SpecConc == InitConc /\ [][NextConc]_vars

\* the start-up policy and the configuration status, over every environment
InitEnv == Started(AllEnvs)

NextEnv == get_config \/ CrossOriginRequest

SpecEnv == InitEnv /\ [][NextEnv]_vars

(***************************************************************************)
(* What the claims speak of, stated on the request and the environment.    *)
(***************************************************************************)
Done(h) == hs[h].pc = "done"

\* the name ends in ".pdf", in either case of each letter
HasPdfExtension(fn) ==
    /\ Len(fn) >= 4
    /\ fn[Len(fn) - 3] = "."
    /\ fn[Len(fn) - 2] \in {"p", "P"}
    /\ fn[Len(fn) - 1] \in {"d", "D"}
    /\ fn[Len(fn)] \in {"f", "F"}

\* the stream has at least 4 bytes and they are %PDF
StartsWithMagic(st) ==
    /\ Len(st.head) >= 4
    /\ st.head[1] = "%" /\ st.head[2] = "P" /\ st.head[3] = "D" /\ st.head[4] = "F"

FiftyMiB == 50 * 1024 * 1024

\* presence, extension, content and size are all in order
PassesValidation(r) ==
    /\ r.has_file
    /\ r.filename # <<>>
    /\ HasPdfExtension(r.filename)
    /\ StartsWithMagic(r.stream)
    /\ r.stream.size <= FiftyMiB

BucketSet == env.AWS_S3_BUCKET # NONE /\ env.AWS_S3_BUCKET # ""

IsError(resp, text, status) ==
    /\ resp.json
    /\ resp.status = status
    /\ resp.body = [error |-> text]

KeyIssued(h) == "s3_key" \in DOMAIN hs[h].resp.body

IsSuccess(h) ==
    /\ hs[h].resp.json
    /\ hs[h].resp.status = 200
    /\ DOMAIN hs[h].resp.body =
          {"message", "filename", "s3_key", "presigned_url", "file_size"}

IsErrorBody(h) ==
    /\ hs[h].resp.json
    /\ DOMAIN hs[h].resp.body = {"error"}
    /\ hs[h].resp.status \in {400, 413, 500}

PutReturned(h) == hs[h].put_calls = 1 /\ hs[h].put_exc = NoExc

(***************************************************************************)
(* C1: a storage key is issued to the caller if and only if the put of the *)
(* object under that same key succeeded: a finished handling carries an    *)
(* s3_key exactly when its put returned, the key is the one the object was *)
(* stored under, and no response carries a key before the handling ends.   *)
(***************************************************************************)
C1_KeyIffPutSucceeded ==
    \A h \in Handlers :
        /\ ~Done(h) => ~KeyIssued(h)
        /\ Done(h) => (KeyIssued(h) <=> PutReturned(h))
        /\ Done(h) /\ KeyIssued(h) =>
              \E o \in store : o.by = h /\ o.Key = hs[h].resp.body.s3_key
        /\ \A o \in store :
              o.by = h /\ Done(h) =>
                  KeyIssued(h) /\ hs[h].resp.body.s3_key = o.Key

C1_Witness ==
    /\ Done(1) /\ KeyIssued(1) /\ PutReturned(1)
    /\ \E o \in store : o.Key = hs[1].resp.body.s3_key

(***************************************************************************)
(* C2: the upload handler never propagates an unhandled fault: at every    *)
(* failure point no exception leaves the view, a handling has a result     *)
(* exactly when it has ended, and that result is one JSON object: the      *)
(* success payload, or an {error} body with status 400, 413 or 500.        *)
(***************************************************************************)
C2_NoUnhandledFault ==
    \A h \in Handlers :
        /\ ~hs[h].propagated
        /\ ~Done(h) => hs[h].resp = NoResp
        /\ Done(h) => hs[h].resp # NoResp
        /\ Done(h) => (IsSuccess(h) \/ IsErrorBody(h))

\* the put raised a ClientError whose response holds no code, and the
\* KeyError this raises in the handler was answered
C2_Witness ==
    /\ Done(1)
    /\ hs[1].put_exc = ClientErrorNoCode
    /\ IsError(hs[1].resp, "Server error: 'Error'", 500)

(***************************************************************************)
(* C3: whenever the put succeeded, the handler returns the success result  *)
(* (200, message, filename, s3_key, file_size) whatever the presigned-URL  *)
(* generation did, and presigned_url is null exactly when it failed.       *)
(***************************************************************************)
C3_PresignFailureNonFatal ==
    \A h \in Handlers :
        Done(h) /\ PutReturned(h) =>
            /\ IsSuccess(h)
            /\ hs[h].presign_calls = 1
            /\ hs[h].resp.body.message = "File uploaded successfully"
            /\ hs[h].resp.body.filename = secure_filename(hs[h].req.filename)
            /\ hs[h].resp.body.s3_key = hs[h].l.s3_key
            /\ hs[h].resp.body.file_size = hs[h].req.stream.size
            /\ (hs[h].resp.body.presigned_url = NULL
                    <=> hs[h].presign_exc # NoExc)

C3_Witness ==
    /\ Done(1) /\ PutReturned(1)
    /\ hs[1].presign_exc # NoExc
    /\ hs[1].resp.status = 200
    /\ hs[1].resp.body.presigned_url = NULL

(***************************************************************************)
(* C4, as claimed: presence, extension, content sniff and size check run   *)
(* in this order and the first failing one decides the answer; every name  *)
(* without a pdf extension yields 'Only PDF files are allowed' whatever    *)
(* the stream is, and every stream not starting with %PDF under a .pdf     *)
(* name yields 'File is not a valid PDF'.                                  *)
(***************************************************************************)
NoValidationError(resp) ==
    /\ resp.body # [error |-> "No file provided"]
    /\ resp.body # [error |-> "No file selected"]
    /\ resp.body # [error |-> "Only PDF files are allowed"]
    /\ resp.body # [error |-> "File is not a valid PDF"]
    /\ resp.body # [error |-> "File size exceeds 50MB limit"]
    /\ resp.body # [error |-> "Invalid filename"]

FirstFailure(h) ==
    LET r == hs[h].req
        resp == hs[h].resp
    IN  IF ~r.has_file THEN IsError(resp, "No file provided", 400)
        ELSE IF r.filename = <<>> THEN IsError(resp, "No file selected", 400)
        ELSE IF ~HasPdfExtension(r.filename)
        THEN IsError(resp, "Only PDF files are allowed", 400)
        ELSE IF ~StartsWithMagic(r.stream)
        THEN IsError(resp, "File is not a valid PDF", 400)
        ELSE IF r.stream.size > FiftyMiB
        THEN IsError(resp, "File size exceeds 50MB limit", 400)
        ELSE IF secure_filename(r.filename) = <<>>
        THEN resp.status = 500 \/ IsError(resp, "Invalid filename", 400)
        ELSE NoValidationError(resp)

C5_TooLargeUniform ==
    \A h \in Handlers :
        Done(h) /\ hs[h].req.has_file /\ HasPdfExtension(hs[h].req.filename)
                /\ StartsWithMagic(hs[h].req.stream) =>
            /\ hs[h].req.stream.size > FiftyMiB =>
                  /\ hs[h].resp.json
                  /\ hs[h].resp.status \in {400, 413}
                  /\ hs[h].resp.body = [error |-> "File size exceeds 50MB limit"]
            /\ hs[h].req.stream.size = FiftyMiB =>
                  hs[h].resp.body # [error |-> "File size exceeds 50MB limit"]

(***************************************************************************)
(* C6: no storage key with an empty filename part is ever derived and no   *)
(* put is made with an empty original_filename; a filename that reaches    *)
(* the sanitization and is sanitized to the empty string is answered       *)
(* 'Invalid filename' (400).                                               *)
(***************************************************************************)
C6_NoEmptySanitizedName ==
    \A h \in Handlers :
        /\ hs[h].pc \in {"put", "presign"} \/ hs[h].put_calls > 0 =>
              /\ hs[h].l.original_filename # <<>>
              /\ hs[h].l.s3_key[Len(hs[h].l.s3_key)] # "_"
              /\ Len(hs[h].l.s3_key) > 7
        /\ \A o \in store :
              o.ExtraArgs.Metadata.original_filename # <<>>
        /\ Done(h) /\ ~hs[h].rejected /\ PassesValidation(hs[h].req)
              /\ BucketSet /\ hs[h].client_exc = NoExc
              /\ secure_filename(hs[h].req.filename) = <<>> =>
              IsError(hs[h].resp, "Invalid filename", 400)

\* a put under a name of which the sanitization left only the extension
C6_Witness ==
    /\ hs[1].put_calls = 1
    /\ hs[1].req.filename # hs[1].l.original_filename
    /\ hs[1].l.original_filename = <<"p", "d", "f">>
    /\ \E o \in store : o.ExtraArgs.Metadata.original_filename = <<"p", "d", "f">>

(***************************************************************************)
(* C8: the put is invoked at most once, and only after presence,           *)
(* extension, content, size and filename are in order and both the bucket  *)
(* name and the client are there; the presigned URL is asked for at most   *)
(* once and only after the put returned.  A missing bucket is answered     *)
(* 'S3 bucket not configured' (500), a failed client construction 'Failed  *)
(* to initialize S3 client' (500), each with no put attempted.             *)
(***************************************************************************)
C8_StoreCallOrder ==
    \A h \in Handlers :
        /\ hs[h].put_calls <= 1
        /\ hs[h].presign_calls <= 1
        /\ hs[h].put_calls = 1 =>
              /\ PassesValidation(hs[h].req)
              /\ hs[h].l.original_filename # <<>>
              /\ BucketSet /\ hs[h].l.bucket_name = env.AWS_S3_BUCKET
              /\ hs[h].client_exc = NoExc /\ hs[h].l.s3_client # NONE
        /\ hs[h].presign_calls = 1 => PutReturned(h)
        /\ Done(h) /\ ~hs[h].rejected /\ PassesValidation(hs[h].req) =>
              IF ~BucketSet
              THEN /\ IsError(hs[h].resp, "S3 bucket not configured", 500)
                   /\ hs[h].put_calls = 0 /\ hs[h].presign_calls = 0
              ELSE IF hs[h].client_exc # NoExc
              THEN /\ IsError(hs[h].resp, "Failed to initialize S3 client", 500)
                   /\ hs[h].put_calls = 0 /\ hs[h].presign_calls = 0
              ELSE hs[h].put_calls = 1

\* both store calls made, once each
C8_Witness ==
    /\ Done(1)
    /\ hs[1].put_calls = 1 /\ hs[1].presign_calls = 1
    /\ hs[1].resp.status = 200

(***************************************************************************)
(* C7: any two uploads, one after the other or interleaved, are put under  *)
(* distinct storage keys even when their sanitized filenames are the same, *)
(* and the key of each is pdfs/{fresh id}_{sanitized filename}.            *)
(***************************************************************************)
HasKey(h) == hs[h].pc \in {"put", "presign"} \/ hs[h].put_calls > 0

C7_DistinctKeys ==
    /\ \A h1, h2 \in Handlers :
          h1 # h2 /\ HasKey(h1) /\ HasKey(h2) => hs[h1].l.s3_key # hs[h2].l.s3_key
    /\ \A h \in Handlers :
          HasKey(h) =>
              \E id \in issued :
                  hs[h].l.s3_key =
                      <<"p", "d", "f", "s", "/", id, "_">>
                          \o secure_filename(hs[h].req.filename)
    /\ \A o1, o2 \in store : o1.Key = o2.Key => o1.by = o2.by

\* two uploads answered with the same filename and different keys
C7_Witness ==
    /\ Done(1) /\ Done(2) /\ KeyIssued(1) /\ KeyIssued(2)
    /\ hs[1].resp.body.filename = hs[2].resp.body.filename
    /\ hs[1].resp.body.s3_key # hs[2].resp.body.s3_key
    /\ Cardinality(store) = 2

(***************************************************************************)
(* C9: the status of GET /api/config has each flag true exactly when its   *)
(* variable is set to a non-empty value, and configured equal to the AND   *)
(* of the flags of the three required variables, whatever AWS_REGION is.   *)
(***************************************************************************)
IsSet(name) == env[name] # NONE /\ env[name] # ""

C9_ConfiguredIsAndOfFlags ==
    configResp.answered =>
        /\ configResp.details.aws_access_key = IsSet("AWS_ACCESS_KEY_ID")
        /\ configResp.details.aws_secret_key = IsSet("AWS_SECRET_ACCESS_KEY")
        /\ configResp.details.aws_bucket = IsSet("AWS_S3_BUCKET")
        /\ configResp.configured =
              (IsSet("AWS_ACCESS_KEY_ID") /\ IsSet("AWS_SECRET_ACCESS_KEY")
                  /\ IsSet("AWS_S3_BUCKET"))

(***************************************************************************)
(* C10: the cross-origin policy chosen at start-up permits every origin    *)
(* when debug mode is on and no frontend URL is configured, and in every   *)
(* other case permits exactly the listed origins: the frontend URL when    *)
(* set, and the two development origins in debug mode.                     *)
(***************************************************************************)
DebugOn == env.FLASK_DEBUG = "1"

Listed(origin) ==
    \/ IsSet("FRONTEND_URL") /\ origin = env.FRONTEND_URL
    \/ DebugOn /\ origin \in {"http://localhost:3000", "http://localhost:5000"}

C10_CorsPolicy ==
    /\ \A origin \in Origins :
          IF DebugOn /\ ~IsSet("FRONTEND_URL")
          THEN Permits(cors, origin)
          ELSE Permits(cors, origin) <=> Listed(origin)
    /\ corsResp.origin # "" =>
          IF DebugOn /\ ~IsSet("FRONTEND_URL")
          THEN corsResp.allowed
          ELSE corsResp.allowed <=> Listed(corsResp.origin)

====
